---- MODULE Spec2Model ----
(***************************************************************************)
(* Model of app.py: the e-form link checker.  One scheduler thread and the *)
(* /refresh request handlers call run_check, which is wrapped by the       *)
(* non-blocking guard with_check_lock; run_check fetches the catalog,      *)
(* probes every record with check_link, merges first_broken from the       *)
(* previous history.json, sorts, persists history.json and the CSV export  *)
(* and publishes progress events on progress_queue, which the              *)
(* /progress-stream generator drains.                                      *)
(*                                                                         *)
(* Strings are sequences of code points, so that strip() and the           *)
(* lexicographic comparison of the sort key are computed, not assumed.     *)
(* An optional value (None / a missing key) is the empty sequence, a       *)
(* present one the one-element sequence.                                   *)
(***************************************************************************)
EXTENDS Integers, Sequences, FiniteSets, TLC

VARIABLES
    clock,           \* wall clock, in the seconds datetime.now() formats
    check_lock,      \* owner of check_lock, or "free"
    is_checking,     \* the global flag
    progress_queue,  \* queue.Queue of progress events
    jsonFile,        \* history.json on disk
    csvFile,         \* link_history.csv on disk
    pc,              \* position of each thread
    auto,            \* run_check's argument
    attempt,         \* get_links_with_meta: loop variable
    records,         \* run_check: records
    nowv,            \* run_check: now
    history,         \* run_check: history
    results,         \* run_check: results
    ret,             \* what run_check (the wrapper) gave its caller
    http,            \* last HTTP status the /refresh handler answered with
    subOn,           \* /progress-stream generators that are running
    runEvents,       \* events published by each invocation so far
    lastSnap,        \* last snapshot a run wrote in full (None before any)
    pIn,             \* prober harness: the call's arguments and the server's answer
    pOut,            \* prober harness: check_link's return value
    pageView,        \* what index() last read from history.json (None before any)
    download,        \* what download_csv last sent (None before any)
    got,             \* observed connections: events delivered since the connect
    due,             \* observed connections: events published since the connect
    stale            \* observed connections: queued events of runs that had ended
                     \* at the connect and are still ahead in the queue

vars == <<clock, check_lock, is_checking, progress_queue, jsonFile, csvFile, pc,
          auto, attempt, records, nowv, history, results, ret, http, subOn,
          runEvents, lastSnap, pIn, pOut, pageView, download, got, due, stale>>

----------------------------------------------------------------------------
(* Bounds of the model *)

MaxTime == 2      \* the clock runs 1..MaxTime
MaxQueue == 0     \* a call is started only with at most this many events queued
MaxReq == 1       \* concurrent /refresh request threads
MaxSubs == 1      \* /progress-stream connections
MaxViewers == 2   \* /progress-stream connections whose frames are observed
MaxDue == 0       \* a run is started only with at most this many events on record
                  \* as published to a connected observed connection

(* Program constants *)

FetchAttempts == 3        \* range(3)
HttpErrorFloor == 400     \* r.status_code >= 400
HttpConflict == 409       \* the wrapper's rejection
HttpFound == 302          \* redirect(url_for('index'))

----------------------------------------------------------------------------
(* Threads *)

Sched == "sched"
ReqName(i) == IF i = 1 THEN "r1" ELSE IF i = 2 THEN "r2" ELSE IF i = 3 THEN "r3" ELSE "r4"
Requests == {ReqName(i) : i \in 1..MaxReq}
Procs == {Sched} \cup Requests
Subs == 1..MaxSubs
Viewers == 1..MaxViewers

----------------------------------------------------------------------------
(* Strings *)

\* str.strip() removes whitespace; the space is the one that occurs here
IsSpace(c) == c = 32

RECURSIVE LStrip(_)
LStrip(s) == IF s # <<>> /\ IsSpace(Head(s)) THEN LStrip(Tail(s)) ELSE s

RECURSIVE RStrip(_)
RStrip(s) == IF s # <<>> /\ IsSpace(s[Len(s)]) THEN RStrip(SubSeq(s, 1, Len(s) - 1)) ELSE s

\* str.strip()
Strip(s) == RStrip(LStrip(s))

\* Python's < on str: lexicographic by code point
RECURSIVE StrLess(_, _)
StrLess(s, t) ==
    IF t = <<>> THEN FALSE
    ELSE IF s = <<>> THEN TRUE
    ELSE IF Head(s) # Head(t) THEN Head(s) < Head(t)
    ELSE StrLess(Tail(s), Tail(t))

None == <<>>
Some(x) == <<x>>

\* bool(s) of a str or of a missing key
Truthy(s) == s # <<>>

sEmpty == <<>>
sA == <<97>>
sB == <<98>>
sSpA == <<32, 97>>
sU == <<117>>
sUSp == <<117, 32>>
sV == <<118>>
sSp == <<32>>

----------------------------------------------------------------------------
(* The upstream catalog *)

BlankForm ==
    [en_department |-> sEmpty, en_title |-> sEmpty,
     tc_department |-> sEmpty, tc_title |-> sEmpty,
     sc_department |-> sEmpty, sc_title |-> sEmpty,
     en_url |-> sEmpty, tc_url |-> sEmpty, sc_url |-> sEmpty]

\* English names; its two URL fields hold the same address, one of them padded
FormA == [BlankForm EXCEPT !.en_department = sB, !.en_title = sA,
                           !.en_url = sU, !.tc_url = sUSp]
\* no English title: falls back to the traditional-script pair; padded department
FormB == [BlankForm EXCEPT !.en_department = sB,
                           !.tc_department = sSpA, !.tc_title = sB,
                           !.sc_url = sV]
FormC == [BlankForm EXCEPT !.en_department = sB, !.en_title = sB, !.en_url = sU]
FormD == [BlankForm EXCEPT !.en_department = sB, !.en_title = sA, !.en_url = sV]
\* an item without any URL
FormNoUrl == [BlankForm EXCEPT !.sc_department = sA, !.sc_title = sA]
\* an item whose only URL field is blank
FormBlankUrl == [BlankForm EXCEPT !.en_department = sA, !.en_title = sA,
                                  !.en_url = sSp]

\* the payloads the upstream serves to a sequence of runs
Catalogs == {<<FormA>>, <<FormC, FormB>>, <<FormC, FormD>>, <<FormC, FormA>>,
             <<FormNoUrl>>}
\* the payloads it serves while several callers compete
SmallCatalogs == {<<FormB>>, <<FormNoUrl, FormBlankUrl>>, <<FormNoUrl>>}

\* what one requests.get(EFORM_URL) attempt can end in
FetchFailures == {"Timeout", "RequestException", "InvalidJSON", "NotAList", "EmptyList"}

Langs == <<"en", "tc", "sc">>

FormUrl(form, lang) ==
    IF lang = "en" THEN form.en_url
    ELSE IF lang = "tc" THEN form.tc_url
    ELSE form.sc_url

FormDept(form) ==
    IF Truthy(form.en_department) /\ Truthy(form.en_title) THEN Strip(form.en_department)
    ELSE IF Truthy(form.tc_department) /\ Truthy(form.tc_title) THEN Strip(form.tc_department)
    ELSE Strip(form.sc_department)

FormTitle(form) ==
    IF Truthy(form.en_department) /\ Truthy(form.en_title) THEN Strip(form.en_title)
    ELSE IF Truthy(form.tc_department) /\ Truthy(form.tc_title) THEN Strip(form.tc_title)
    ELSE Strip(form.sc_title)

\* the inner loop over ("en", "tc", "sc") of one form, from language i on
RECURSIVE FormRecords(_, _)
FormRecords(form, i) ==
    IF i > Len(Langs) THEN <<>>
    ELSE (IF Truthy(FormUrl(form, Langs[i]))
          THEN <<[department |-> FormDept(form), title |-> FormTitle(form),
                  lang |-> Langs[i], url |-> Strip(FormUrl(form, Langs[i]))]>>
          ELSE <<>>) \o FormRecords(form, i + 1)

\* the records loop of get_links_with_meta
RECURSIVE Normalize(_)
Normalize(forms) ==
    IF forms = <<>> THEN <<>>
    ELSE FormRecords(Head(forms), 1) \o Normalize(Tail(forms))

----------------------------------------------------------------------------
(* check_link *)

StatusOK == <<"OK">>
StatusBroken == <<"Broken">>
StatusError(code) == <<"Error", code>>

\* The outcome of requests.head: a response with a status code, or an exception.
Response(code) == [kind |-> "response", code |-> code, exc |-> "none"]
Raised(e) == [kind |-> "exception", code |-> 0, exc |-> e]

\* subclasses of requests.RequestException that requests.head raises
RequestExceptions == {"ConnectionError", "Timeout", "MissingSchema",
                      "SSLError:legacy_renegotiation", "SSLError:handshake_failure",
                      "SSLError:certificate_verify_failed"}

\* an except clause that absorbs timeouts only
CaughtTimeoutOnly(e) == e = "Timeout"

\* except requests.RequestException: the exceptions check_link absorbs
Caught(e) == e \in RequestExceptions

\* the status check_link returns for an outcome of requests.head
LinkStatus(r) ==
    IF r.kind = "response"
    THEN (IF r.code >= HttpErrorFloor THEN StatusError(r.code) ELSE StatusOK)
    ELSE StatusBroken

\* the event check_link publishes first
CheckingEvent(rec, index, total) ==
    [state |-> "checking", message |-> <<"Checking", rec.department, rec.title, rec.lang>>,
     current |-> index, total |-> total]

\* a "fetching" event that is published in the state "checking"
FetchingAsChecking(msg) == [state |-> "checking", message |-> <<msg>>, current |-> 0, total |-> 0]

FetchingEvent(msg) == [state |-> "fetching", message |-> <<msg>>, current |-> 0, total |-> 0]
CompleteEvent(msg) == [state |-> "complete", message |-> <<msg>>, current |-> 0, total |-> 0]

----------------------------------------------------------------------------
(* The merge and the sort of run_check *)

\* prev = next((h for h in old_results if h["url"] == url and h["status"] != "OK"), None)
PrevIdx(old, url) ==
    {i \in 1..Len(old) : old[i].url = url /\ old[i].status # StatusOK}

Min(S) == CHOOSE x \in S : \A y \in S : x <= y

\* first_broken that starts anew at every run
FirstBrokenResets(status, url, old, now) ==
    IF status = StatusOK THEN None ELSE Some(now)

\* first_broken that takes whatever the previous entry holds
FirstBrokenTrustsPrev(status, url, old, now) ==
    IF status = StatusOK THEN None
    ELSE IF PrevIdx(old, url) # {}
         THEN old[Min(PrevIdx(old, url))].first_broken
         ELSE Some(now)

FirstBroken(status, url, old, now) ==
    IF status = StatusOK THEN None
    ELSE IF PrevIdx(old, url) # {} /\ Truthy(old[Min(PrevIdx(old, url))].first_broken)
         THEN old[Min(PrevIdx(old, url))].first_broken
         ELSE Some(now)

MakeResult(rec, status, old, now) ==
    [department |-> rec.department, title |-> rec.title, lang |-> rec.lang,
     url |-> rec.url, status |-> status,
     first_broken |-> FirstBroken(status, rec.url, old, now)]

\* status_order.get(r["status"], 1): the rank looked up by the whole status
StatusRankWholeStatus(status) ==
    IF status \in {<<"Error">>, <<"Broken">>} THEN 0 ELSE 1

\* status_order.get(r["status"].split()[0], 1)
StatusRank(status) ==
    IF Head(status) \in {"Error", "Broken"} THEN 0 ELSE 1

\* the sort key compared as Python compares tuples
KeyLess(a, b) ==
    \/ StatusRank(a.status) < StatusRank(b.status)
    \/ /\ StatusRank(a.status) = StatusRank(b.status)
       /\ \/ StrLess(a.department, b.department)
          \/ a.department = b.department /\ StrLess(a.title, b.title)

\* list.sort is stable: an element goes behind every element not greater than it
RECURSIVE InsertSorted(_, _)
InsertSorted(sorted, x) ==
    IF sorted = <<>> THEN <<x>>
    ELSE IF KeyLess(x, Head(sorted)) THEN <<x>> \o sorted
    ELSE <<Head(sorted)>> \o InsertSorted(Tail(sorted), x)

RECURSIVE SortFrom(_, _)
SortFrom(rs, acc) ==
    IF rs = <<>> THEN acc ELSE SortFrom(Tail(rs), InsertSorted(acc, Head(rs)))

SortResults(rs) == SortFrom(rs, <<>>)
----------------------------------------------------------------------------
(* Files *)

AbsentFile == [kind |-> "absent", results |-> <<>>, last_checked |-> None,
               last_auto_refresh |-> None]
\* opened with 'w' and not (or not wholly) written
PartialFile == [kind |-> "partial", results |-> <<>>, last_checked |-> None,
                last_auto_refresh |-> None]
Snapshot(rs, checked, autoRefresh) ==
    [kind |-> "snap", results |-> rs, last_checked |-> checked,
     last_auto_refresh |-> autoRefresh]

\* history = {}
EmptyHistory == Snapshot(<<>>, None, None)

AbsentCsv == [kind |-> "absent", rows |-> <<>>]
PartialCsv == [kind |-> "partial", rows |-> <<>>]
CsvOf(rs) == [kind |-> "rows", rows |-> rs]

\* a history.json left by an earlier deployment: a broken link without first_broken
LegacyResults ==
    <<[department |-> sB, title |-> sA, lang |-> "en", url |-> sU,
       status |-> StatusError(404), first_broken |-> None],
      [department |-> sB, title |-> sA, lang |-> "tc", url |-> sV,
       status |-> StatusOK, first_broken |-> None]>>
LegacySnap == Snapshot(LegacyResults, Some(0), None)

\* a snapshot that stamps last_auto_refresh at every run
BuildDataStampsAlways(rs, now, isAuto, hist) ==
    Snapshot(rs, Some(now), Some(now))

\* data = {...}: the snapshot run_check builds from its sorted results
BuildData(rs, now, isAuto, hist) ==
    Snapshot(rs, Some(now),
             IF isAuto THEN Some(now) ELSE hist.last_auto_refresh)

----------------------------------------------------------------------------
(* Values of run_check's caller *)

NoRet == [kind |-> "none", results |-> <<>>, code |-> 0]
ResultsRet(rs) == [kind |-> "results", results |-> rs, code |-> 0]
\* (jsonify({"error": ...}), 409)
ConflictRet == [kind |-> "conflict", results |-> <<>>, code |-> HttpConflict]
RaiseRet == [kind |-> "raise", results |-> <<>>, code |-> 0]

\* what requests.head may answer for a url in a run
RunAnswers(url) ==
    IF url = sEmpty THEN {Raised("MissingSchema")}
    ELSE {Response(200), Response(404), Raised("ConnectionError")}

NoProbe == [rec |-> [department |-> sEmpty, title |-> sEmpty, lang |-> "en", url |-> sEmpty],
            index |-> 0, total |-> 0, answer |-> Raised("MissingSchema")]

----------------------------------------------------------------------------
(* Initial state *)

Init ==
    /\ clock = 1
    /\ check_lock = "free"
    /\ is_checking = FALSE
    /\ progress_queue = <<>>
    /\ \/ jsonFile = AbsentFile /\ csvFile = AbsentCsv
       \/ jsonFile = LegacySnap /\ csvFile = CsvOf(LegacyResults)
    /\ pc = [p \in Procs |-> "idle"]
    /\ auto = [p \in Procs |-> FALSE]
    /\ attempt = [p \in Procs |-> 0]
    /\ records = [p \in Procs |-> <<>>]
    /\ nowv = [p \in Procs |-> 0]
    /\ history = [p \in Procs |-> EmptyHistory]
    /\ results = [p \in Procs |-> <<>>]
    /\ ret = [p \in Procs |-> NoRet]
    /\ http = [p \in Procs |-> 0]
    /\ subOn = [s \in Subs |-> FALSE]
    /\ runEvents = [p \in Procs |-> <<>>]
    /\ lastSnap = None
    /\ pIn = NoProbe
    /\ pOut = None
    /\ pageView = None /\ download = None
    /\ got = <<>> /\ due = <<>> /\ stale = <<>>

----------------------------------------------------------------------------
(* Steps *)

locals == <<auto, attempt, records, nowv, history, results>>
files == <<jsonFile, csvFile, lastSnap>>
guard == <<check_lock, is_checking>>
probe == <<pIn, pOut>>
readers == <<pageView, download>>
delivery == <<got, due, stale>>

\* update_progress: progress_queue.put(progress_data)
UpdateProgress(p, ev) ==
    /\ progress_queue' = Append(progress_queue, ev)
    /\ runEvents' = [runEvents EXCEPT ![p] = Append(@, ev)]
    /\ due' = [s \in DOMAIN due |-> IF subOn[s] THEN Append(due[s], ev) ELSE due[s]]

\* an exception that leaves the wrapper without passing its finally
RaiseFromPastFinally(p) ==
    /\ pc' = [pc EXCEPT ![p] = "rejected"]
    /\ ret' = [ret EXCEPT ![p] = RaiseRet]

\* an exception leaves the body of run_check for the wrapper's finally
RaiseFrom(p) ==
    /\ pc' = [pc EXCEPT ![p] = "finally"]
    /\ ret' = [ret EXCEPT ![p] = RaiseRet]

\* time passes
Tick ==
    /\ clock < MaxTime
    /\ clock' = clock + 1
    /\ UNCHANGED <<check_lock, is_checking, progress_queue, jsonFile, csvFile, pc,
                   auto, attempt, records, nowv, history, results, ret, http, subOn,
                   runEvents, lastSnap, pIn, pOut, readers, delivery>>

\* check_lock.acquire(blocking=False) of a caller that ignores the lock
TryAcquireAlways == TRUE

\* check_lock.acquire(blocking=False)
TryAcquire == check_lock = "free"

\* the acquire succeeded: the lock is taken
Accept(p) ==
    /\ Len(progress_queue) <= MaxQueue
    /\ check_lock' = p
    /\ is_checking' = is_checking
    /\ pc' = [pc EXCEPT ![p] = "acquired"]
    /\ ret' = ret

\* a rejection that leaves through the finally clause
RejectThroughFinally(p) ==
    /\ check_lock' = "free"
    /\ is_checking' = FALSE
    /\ pc' = [pc EXCEPT ![p] = "rejected"]
    /\ ret' = [ret EXCEPT ![p] = IF p = Sched THEN RaiseRet ELSE ConflictRet]

\* the acquire failed: return jsonify({"error": ...}), 409.  jsonify needs an
\* application context, which the scheduler thread has not: there the return
\* statement raises RuntimeError
Reject(p) ==
    /\ check_lock' = check_lock
    /\ is_checking' = is_checking
    /\ pc' = [pc EXCEPT ![p] = "rejected"]
    /\ ret' = [ret EXCEPT ![p] = IF p = Sched THEN RaiseRet ELSE ConflictRet]

\* wrapper: the scheduler calls run_check(auto=True), /refresh calls run_check()
Call(p) ==
    /\ pc[p] = "idle"
    /\ IF TryAcquire THEN Accept(p) ELSE Reject(p)
    /\ auto' = [auto EXCEPT ![p] = (p = Sched)]
    /\ http' = [http EXCEPT ![p] = 0]
    /\ UNCHANGED <<clock, progress_queue, jsonFile, csvFile, attempt,
                   records, nowv, history, results, subOn, runEvents, lastSnap,
                   pIn, pOut, readers, delivery>>

\* wrapper: is_checking = True
SetChecking(p) ==
    /\ pc[p] = "acquired"
    /\ is_checking' = TRUE
    /\ pc' = [pc EXCEPT ![p] = "run"]
    /\ UNCHANGED <<clock, check_lock, progress_queue, files, locals, ret, http,
                   subOn, runEvents, probe, readers, delivery>>

\* run_check: update_progress("fetching", "Getting forms data...")
RunStart(p) ==
    /\ pc[p] = "run"
    /\ UpdateProgress(p, FetchingEvent("Getting forms data..."))
    /\ pc' = [pc EXCEPT ![p] = "get_links"]
    /\ UNCHANGED <<clock, guard, files, locals, ret, http, subOn, probe,
                   readers, got, stale>>

\* get_links_with_meta: update_progress("fetching", "Fetching forms data...")
GetLinksStart(p) ==
    /\ pc[p] = "get_links"
    /\ UpdateProgress(p, FetchingEvent("Fetching forms data..."))
    /\ attempt' = [attempt EXCEPT ![p] = 0]
    /\ pc' = [pc EXCEPT ![p] = "fetch"]
    /\ UNCHANGED <<clock, guard, files, auto, records, nowv, history, results, ret,
                   http, subOn, probe, readers, got, stale>>

\* one pass of "for attempt in range(3)" that ends in an except clause;
\* after the last one the for's else returns []
FetchFail(p) ==
    /\ pc[p] = "fetch"
    /\ attempt[p] < FetchAttempts
    /\ \E why \in FetchFailures :
          IF attempt[p] + 1 = FetchAttempts
          THEN /\ attempt' = [attempt EXCEPT ![p] = 0]
               /\ records' = [records EXCEPT ![p] = <<>>]
               /\ pc' = [pc EXCEPT ![p] = "no_records"]
          ELSE /\ attempt' = [attempt EXCEPT ![p] = @ + 1]
               /\ records' = records
               /\ pc' = pc
    /\ UNCHANGED <<clock, guard, progress_queue, files, auto, nowv, history, results,
                   ret, http, subOn, runEvents, probe, readers, delivery>>

\* a pass that gets a non-empty list: break, then build and return the records
FetchOk(p, served) ==
    /\ pc[p] = "fetch"
    /\ attempt[p] < FetchAttempts
    /\ \E forms \in served :
          /\ records' = [records EXCEPT ![p] = Normalize(forms)]
          /\ pc' = [pc EXCEPT ![p] = IF Normalize(forms) = <<>> THEN "no_records" ELSE "now"]
    /\ attempt' = [attempt EXCEPT ![p] = 0]
    /\ UNCHANGED <<clock, guard, progress_queue, files, auto, nowv, history,
                   results, ret, http, subOn, runEvents, probe, readers, delivery>>

\* if not records: update_progress("complete", "No records found")
NoRecords(p) ==
    /\ pc[p] = "no_records"
    /\ UpdateProgress(p, CompleteEvent("No records found"))
    /\ pc' = [pc EXCEPT ![p] = "no_records_return"]
    /\ UNCHANGED <<clock, guard, files, locals, ret, http, subOn, probe,
                   readers, got, stale>>

\* return json.load(open(JSON_FILE))["results"] if os.path.exists(JSON_FILE) else []
NoRecordsReturn(p) ==
    /\ pc[p] = "no_records_return"
    /\ pc' = [pc EXCEPT ![p] = "finally"]
    /\ ret' = [ret EXCEPT ![p] =
                 IF jsonFile.kind = "absent" THEN ResultsRet(<<>>)
                 ELSE IF jsonFile.kind = "snap" THEN ResultsRet(jsonFile.results)
                 ELSE RaiseRet]
    /\ UNCHANGED <<clock, guard, progress_queue, files, locals, http, subOn,
                   runEvents, probe, readers, delivery>>

\* now = datetime.now().strftime(...)
TakeNow(p) ==
    /\ pc[p] = "now"
    /\ nowv' = [nowv EXCEPT ![p] = clock]
    /\ pc' = [pc EXCEPT ![p] = "load"]
    /\ UNCHANGED <<clock, guard, progress_queue, files, auto, attempt, records,
                   history, results, ret, http, subOn, runEvents, probe,
                   readers, delivery>>

\* history = {} ; if os.path.exists(JSON_FILE): history = json.load(f)
LoadHistory(p) ==
    /\ pc[p] = "load"
    /\ IF jsonFile.kind = "partial"
       THEN /\ RaiseFrom(p)
            /\ history' = history
       ELSE /\ history' = [history EXCEPT ![p] =
                             IF jsonFile.kind = "snap" THEN jsonFile ELSE EmptyHistory]
            /\ pc' = [pc EXCEPT ![p] = "loop"]
            /\ ret' = ret
    /\ results' = [results EXCEPT ![p] = <<>>]
    /\ UNCHANGED <<clock, guard, progress_queue, files, auto, attempt, records, nowv,
                   http, subOn, runEvents, probe, readers, delivery>>

\* one pass of "for index, rec in enumerate(records, 1)"
CheckLink(p) ==
    /\ pc[p] = "loop"
    /\ Len(results[p]) < Len(records[p])
    /\ LET index == Len(results[p]) + 1
           rec == records[p][index]
       IN /\ UpdateProgress(p, CheckingEvent(rec, index, Len(records[p])))
          /\ \E r \in RunAnswers(rec.url) :
                IF r.kind = "exception" /\ ~Caught(r.exc)
                THEN /\ results' = results      \* the exception leaves check_link
                     /\ RaiseFrom(p)
                ELSE /\ results' = [results EXCEPT ![p] =
                            Append(@, MakeResult(rec, LinkStatus(r), history[p].results,
                                                 nowv[p]))]
                     /\ pc' = pc
                     /\ ret' = ret
    /\ UNCHANGED <<clock, guard, files, auto, attempt, records, nowv, history,
                   http, subOn, probe, readers, got, stale>>

\* results.sort(...); data = {...}; open(JSON_FILE, 'w') truncates the file
OpenJson(p) ==
    /\ pc[p] = "loop"
    /\ Len(results[p]) = Len(records[p])
    /\ results' = [results EXCEPT ![p] = SortResults(@)]
    /\ \/ /\ jsonFile' = PartialFile
          /\ pc' = [pc EXCEPT ![p] = "dump"]
          /\ ret' = ret
       \/ /\ jsonFile' = jsonFile          \* OSError from open
          /\ RaiseFrom(p)
    /\ UNCHANGED <<clock, guard, progress_queue, csvFile, lastSnap, auto, attempt,
                   records, nowv, history, http, subOn, runEvents, probe,
                   readers, delivery>>

\* json.dump(data, f, ...) and the close of the with block
DumpJson(p) ==
    /\ pc[p] = "dump"
    /\ \/ /\ jsonFile' = BuildData(results[p], nowv[p], auto[p], history[p])
          /\ lastSnap' = Some(jsonFile')
          /\ pc' = [pc EXCEPT ![p] = "to_csv"]
          /\ ret' = ret
       \/ /\ jsonFile' = jsonFile          \* OSError while writing: the file stays cut
          /\ lastSnap' = lastSnap
          /\ RaiseFrom(p)
    /\ UNCHANGED <<clock, guard, progress_queue, csvFile, locals, http, subOn,
                   runEvents, probe, readers, delivery>>

\* pd.DataFrame(results).to_csv(CSV_FILE, index=False)
ToCsv(p) ==
    /\ pc[p] = "to_csv"
    /\ \/ /\ csvFile' = CsvOf(results[p])
          /\ pc' = [pc EXCEPT ![p] = "complete"]
          /\ ret' = ret
       \/ /\ csvFile' = PartialCsv          \* OSError while writing: the file stays cut
          /\ RaiseFrom(p)
    /\ UNCHANGED <<clock, guard, progress_queue, jsonFile, lastSnap, locals, http,
                   subOn, runEvents, probe, readers, delivery>>

\* update_progress("complete", "Check completed"); return results
Complete(p) ==
    /\ pc[p] = "complete"
    /\ UpdateProgress(p, CompleteEvent("Check completed"))
    /\ pc' = [pc EXCEPT ![p] = "finally"]
    /\ ret' = [ret EXCEPT ![p] = ResultsRet(results[p])]
    /\ UNCHANGED <<clock, guard, files, locals, http, subOn, probe,
                   readers, got, stale>>

\* finally: is_checking = False
Finally(p) ==
    /\ pc[p] = "finally"
    /\ is_checking' = FALSE
    /\ pc' = [pc EXCEPT ![p] = "release"]
    /\ UNCHANGED <<clock, check_lock, progress_queue, files, locals, ret, http,
                   subOn, runEvents, probe, readers, delivery>>

\* the status the client of /refresh gets: refresh() drops run_check's value and
\* returns the redirect; an exception out of run_check is Flask's 500
RefreshStatus(r) == IF r.kind = "raise" THEN 500 ELSE HttpFound

\* the caller goes on with what the wrapper gave it: refresh() answers its
\* client, the scheduler logs and sleeps; the invocation's frame is gone
Leave(p) ==
    /\ http' = [http EXCEPT ![p] = IF p = Sched THEN 0 ELSE RefreshStatus(ret[p])]
    /\ pc' = [pc EXCEPT ![p] = "idle"]
    /\ auto' = [auto EXCEPT ![p] = FALSE]
    /\ attempt' = [attempt EXCEPT ![p] = 0]
    /\ records' = [records EXCEPT ![p] = <<>>]
    /\ nowv' = [nowv EXCEPT ![p] = 0]
    /\ history' = [history EXCEPT ![p] = EmptyHistory]
    /\ results' = [results EXCEPT ![p] = <<>>]
    /\ ret' = [ret EXCEPT ![p] = NoRet]
    /\ runEvents' = [runEvents EXCEPT ![p] = <<>>]

\* finally: check_lock.release(), and the return to the caller
Release(p) ==
    /\ pc[p] = "release"
    /\ check_lock' = "free"
    /\ Leave(p)
    /\ UNCHANGED <<clock, is_checking, progress_queue, files, subOn, probe,
                   readers, delivery>>

\* the return to the caller of a call the wrapper turned away
Return(p) ==
    /\ pc[p] = "rejected"
    /\ Leave(p)
    /\ UNCHANGED <<clock, guard, progress_queue, files, subOn, probe,
                   readers, delivery>>

\* the value of f with v at s, for the connections that f observes
Note(f, s, v) == IF s \in DOMAIN f THEN [f EXCEPT ![s] = v] ELSE f

\* the events in the queue that no run in flight has published: the queue is
\* fed by the holder of check_lock only, whose events are its tail
Leftover ==
    IF check_lock = "free" THEN Len(progress_queue)
    ELSE IF Len(progress_queue) > Len(runEvents[check_lock])
         THEN Len(progress_queue) - Len(runEvents[check_lock])
         ELSE 0

\* a client opens /progress-stream: generate() starts
SubConnect(s) ==
    /\ ~subOn[s]
    /\ subOn' = [subOn EXCEPT ![s] = TRUE]
    /\ got' = Note(got, s, <<>>)
    /\ due' = Note(due, s, <<>>)
    /\ stale' = Note(stale, s, Leftover)
    /\ UNCHANGED <<clock, guard, progress_queue, files, locals, pc, ret, http,
                   runEvents, probe, readers>>

\* generate(): progress_queue.get, yield, break on "complete"
SubGet(s) ==
    /\ subOn[s]
    /\ progress_queue # <<>>
    /\ progress_queue' = Tail(progress_queue)
    /\ subOn' = [subOn EXCEPT ![s] = Head(progress_queue).state # "complete"]
    /\ IF Head(progress_queue).state = "complete"
       THEN /\ got' = Note(got, s, <<>>)      \* the stream ends: nothing left to observe
            /\ due' = Note(due, s, <<>>)
       ELSE /\ got' = Note(got, s, IF s \in DOMAIN got
                                     THEN Append(got[s], Head(progress_queue)) ELSE <<>>)
            /\ due' = due
    /\ stale' = [t \in DOMAIN stale |->
                    IF t = s /\ Head(progress_queue).state = "complete" THEN 0
                    ELSE IF stale[t] > 0 THEN stale[t] - 1 ELSE 0]
    /\ UNCHANGED <<clock, guard, files, locals, pc, ret, http, runEvents, probe, readers>>

\* generate(): the client has gone; the write of the keep-alive that follows
\* queue.Empty fails and the generator is closed
SubClose(s) ==
    /\ subOn[s]
    /\ progress_queue = <<>>
    /\ subOn' = [subOn EXCEPT ![s] = FALSE]
    /\ got' = Note(got, s, <<>>)
    /\ due' = Note(due, s, <<>>)
    /\ stale' = Note(stale, s, 0)
    /\ UNCHANGED <<clock, guard, progress_queue, files, locals, pc, ret, http,
                   runEvents, probe, readers>>

\* the steps of one /progress-stream connection
StreamStep(s) == SubConnect(s) \/ SubGet(s) \/ SubClose(s)

\* the steps of an accepted invocation while the upstream serves `served`
BodyStep(p, served) ==
    \/ SetChecking(p)
    \/ RunStart(p)
    \/ GetLinksStart(p)
    \/ FetchFail(p)
    \/ FetchOk(p, served)
    \/ NoRecords(p)
    \/ NoRecordsReturn(p)
    \/ TakeNow(p)
    \/ LoadHistory(p)
    \/ CheckLink(p)
    \/ OpenJson(p)
    \/ DumpJson(p)
    \/ ToCsv(p)
    \/ Complete(p)
    \/ Finally(p)
    \/ Release(p)

\* the steps of a caller of run_check
Step(p, served) ==
    \/ Call(p)
    \/ BodyStep(p, served)
    \/ Return(p)

\* the scheduler thread, the /refresh handlers and the stream generators
Next ==
    \/ \E p \in Procs : Step(p, SmallCatalogs)
    \/ \E s \in Subs : StreamStep(s)

Spec == Init /\ [][Next]_vars

NoStream == \A s \in Subs : ~subOn[s]

\* a sequence of manual runs over the full catalogs, as time passes; a run is
\* started while no stream is open, and streams are opened and read between runs
NextRuns ==
    \/ Tick
    \/ NoStream /\ Call(ReqName(1))
    \/ BodyStep(ReqName(1), Catalogs)
    \/ check_lock = "free" /\ \E s \in Subs : StreamStep(s)

SpecRuns == Init /\ [][NextRuns]_vars
----------------------------------------------------------------------------
(* Scheduled and manual runs, one after the other, as time passes *)

NextAuto ==
    \/ Tick
    \/ \E p \in Procs : NoStream /\ check_lock = "free" /\ Call(p)
    \/ \E p \in Procs : BodyStep(p, SmallCatalogs)
    \/ check_lock = "free" /\ \E s \in Subs : StreamStep(s)

SpecAuto == Init /\ [][NextAuto]_vars

----------------------------------------------------------------------------
(* The routes that read the files *)

\* index(): os.path.exists(JSON_FILE), then json.load of what the file holds now
IndexRead ==
    /\ pageView' = Some(jsonFile)
    /\ UNCHANGED <<clock, guard, progress_queue, files, locals, pc, ret, http, subOn,
                   runEvents, probe, download, delivery>>

\* download_csv(): send_file(CSV_FILE) of what the file holds now
DownloadCsv ==
    /\ download' = Some(csvFile)
    /\ UNCHANGED <<clock, guard, progress_queue, files, locals, pc, ret, http, subOn,
                   runEvents, probe, pageView, delivery>>

\* manual runs while the page and the export are requested
NextReaders ==
    \/ Call(ReqName(1))
    \/ BodyStep(ReqName(1), SmallCatalogs)
    \/ IndexRead
    \/ DownloadCsv

SpecReaders == Init /\ [][NextReaders]_vars

----------------------------------------------------------------------------
(* The scheduler's runs and the connections of /progress-stream, observed *)

InitStreams ==
    /\ clock = 1
    /\ check_lock = "free"
    /\ is_checking = FALSE
    /\ progress_queue = <<>>
    /\ jsonFile = AbsentFile /\ csvFile = AbsentCsv
    /\ pc = [p \in Procs |-> "idle"]
    /\ auto = [p \in Procs |-> FALSE]
    /\ attempt = [p \in Procs |-> 0]
    /\ records = [p \in Procs |-> <<>>]
    /\ nowv = [p \in Procs |-> 0]
    /\ history = [p \in Procs |-> EmptyHistory]
    /\ results = [p \in Procs |-> <<>>]
    /\ ret = [p \in Procs |-> NoRet]
    /\ http = [p \in Procs |-> 0]
    /\ subOn = [s \in Viewers |-> FALSE]
    /\ runEvents = [p \in Procs |-> <<>>]
    /\ lastSnap = None
    /\ pIn = NoProbe
    /\ pOut = None
    /\ pageView = None /\ download = None
    /\ got = [s \in Viewers |-> <<>>]
    /\ due = [s \in Viewers |-> <<>>]
    /\ stale = [s \in Viewers |-> 0]

NextStreams ==
    \/ (\A s \in Viewers : subOn[s] => Len(due[s]) <= MaxDue) /\ Call(Sched)
    \/ BodyStep(Sched, SmallCatalogs)
    \/ \E s \in Viewers : StreamStep(s)

SpecStreams == InitStreams /\ [][NextStreams]_vars

----------------------------------------------------------------------------
(* get_links_with_meta on given answers of the upstream *)

\* what requests.get(EFORM_URL) and resp.json() give at one attempt
FetchError(why) == [kind |-> "error", why |-> why, forms |-> <<>>]
FetchPayload(forms) == [kind |-> "payload", why |-> "none", forms |-> forms]

FetchAnswers ==
    {FetchError(w) : w \in FetchFailures \ {"EmptyList"}}
        \cup {FetchPayload(f) : f \in Catalogs \cup SmallCatalogs \cup {<<>>}}

\* the answers to the attempts of one call, would they all be made
FetchInputs == [1..FetchAttempts -> FetchAnswers]

\* an attempt that breaks the loop on any JSON list
FetchSucceedsAnyList(a) == a.kind = "payload"

\* the attempt reaches the break: no exception, and a list that is not empty
FetchSucceeds(a) == a.kind = "payload" /\ a.forms # <<>>

InitFetch ==
    /\ clock = 1
    /\ check_lock = "free"
    /\ is_checking = FALSE
    /\ progress_queue = <<>>
    /\ jsonFile = AbsentFile /\ csvFile = AbsentCsv
    /\ pc = [p \in Procs |-> "idle"]
    /\ auto = [p \in Procs |-> FALSE]
    /\ attempt = [p \in Procs |-> 0]
    /\ records = [p \in Procs |-> <<>>]
    /\ nowv = [p \in Procs |-> 0]
    /\ history = [p \in Procs |-> EmptyHistory]
    /\ results = [p \in Procs |-> <<>>]
    /\ ret = [p \in Procs |-> NoRet]
    /\ http = [p \in Procs |-> 0]
    /\ subOn = [s \in Subs |-> FALSE]
    /\ runEvents = [p \in Procs |-> <<>>]
    /\ lastSnap = None
    /\ pIn \in FetchInputs
    /\ pOut = None
    /\ pageView = None /\ download = None
    /\ got = <<>> /\ due = <<>> /\ stale = <<>>

\* one pass of the loop on the answer given for it
FetchAnswer(p) ==
    /\ pc[p] = "fetch"
    /\ IF FetchSucceeds(pIn[attempt[p] + 1])
       THEN FetchOk(p, {pIn[attempt[p] + 1].forms})
       ELSE FetchFail(p)

\* a manual run up to the return of get_links_with_meta
NextFetch ==
    \/ Call(ReqName(1))
    \/ SetChecking(ReqName(1))
    \/ RunStart(ReqName(1))
    \/ GetLinksStart(ReqName(1))
    \/ FetchAnswer(ReqName(1))

SpecFetch == InitFetch /\ [][NextFetch]_vars

----------------------------------------------------------------------------
(* check_link on its own: one call per input *)

ProbeRecords == {Normalize(<<FormA>>)[1], Normalize(<<FormB>>)[1], Normalize(<<FormBlankUrl>>)[1]}
ProbeCodes == {200, 204, 301, 302, 399, 400, 401, 403, 404, 405, 410, 500, 503}
ProbeAnswers == {Response(c) : c \in ProbeCodes} \cup {Raised(e) : e \in RequestExceptions}
ProbeInputs ==
    {[rec |-> rec, index |-> i, total |-> t, answer |-> r] :
        rec \in ProbeRecords, i \in 1..2, t \in 2..3, r \in ProbeAnswers}

InitProbe ==
    /\ clock = 1
    /\ check_lock = "free"
    /\ is_checking = FALSE
    /\ progress_queue = <<>>
    /\ jsonFile = AbsentFile /\ csvFile = AbsentCsv
    /\ pc = [p \in Procs |-> "idle"]
    /\ auto = [p \in Procs |-> FALSE]
    /\ attempt = [p \in Procs |-> 0]
    /\ records = [p \in Procs |-> <<>>]
    /\ nowv = [p \in Procs |-> 0]
    /\ history = [p \in Procs |-> EmptyHistory]
    /\ results = [p \in Procs |-> <<>>]
    /\ ret = [p \in Procs |-> NoRet]
    /\ http = [p \in Procs |-> 0]
    /\ subOn = [s \in Subs |-> FALSE]
    /\ runEvents = [p \in Procs |-> <<>>]
    /\ lastSnap = None
    /\ pIn \in ProbeInputs
    /\ pOut = None
    /\ pageView = None /\ download = None
    /\ got = <<>> /\ due = <<>> /\ stale = <<>>

\* check_link(url, index, total, department, title, lang)
ProbeCall ==
    /\ pOut = None
    /\ progress_queue' = Append(progress_queue, CheckingEvent(pIn.rec, pIn.index, pIn.total))
    /\ pOut' = Some(LinkStatus(pIn.answer))
    /\ UNCHANGED <<clock, guard, files, locals, pc, ret, http, subOn, runEvents, pIn,
                   readers, delivery>>

\* the next call, on an emptied queue
ProbeAgain ==
    /\ pOut # None
    /\ pIn' \in ProbeInputs
    /\ pOut' = None
    /\ progress_queue' = <<>>
    /\ UNCHANGED <<clock, guard, files, locals, pc, ret, http, subOn, runEvents,
                   readers, delivery>>

NextProbe == ProbeCall \/ ProbeAgain

SpecProbe == InitProbe /\ [][NextProbe]_vars

----------------------------------------------------------------------------
(* Properties *)

R1 == ReqName(1)

\* the thread holds check_lock: from the acquire to the release
Holding(p) == pc[p] \notin {"idle", "rejected"}

\* the thread executes the body of run_check
InBody(p) == pc[p] \in {"run", "get_links", "fetch", "no_records", "no_records_return",
                        "now", "load", "loop", "dump", "to_csv", "complete"}

\* C1: single flight.  At most one invocation is between the acquire and the
\* release (so at most one executes the body of run_check); a call made while
\* the guard is held is turned away in that same step, without waiting, a call
\* made while it is free is accepted; and a call that was turned away never
\* enters the body afterwards.
C1_SingleFlight ==
    /\ [](\A p, q \in Procs : p # q => ~(Holding(p) /\ Holding(q)))
    /\ [][\A q \in Procs :
            (pc[q] = "idle" /\ pc'[q] # "idle") =>
                IF check_lock = "free"
                THEN pc'[q] = "acquired" /\ check_lock' = q
                ELSE pc'[q] = "rejected" /\ check_lock' = check_lock
                     /\ ret'[q].kind \in {"conflict", "raise"}]_vars
    /\ [][\A q \in Procs : pc[q] = "rejected" => pc'[q] \in {"rejected", "idle"}]_vars

\* one invocation is in the body while another has just been turned away
C1_Witness == \E p, q \in Procs : InBody(p) /\ pc[q] = "rejected"

\* C2: the step that turns a call away, and the step that returns from it,
\* leave history.json, the CSV export, progress_queue, is_checking and the
\* owner of check_lock as they were.
C2_RejectedCallFrame ==
    [][\A p \in Procs :
          ((pc[p] = "idle" /\ pc'[p] = "rejected") \/ (pc[p] = "rejected" /\ pc'[p] = "idle"))
          => UNCHANGED <<jsonFile, csvFile, progress_queue, is_checking, check_lock>>]_vars

\* a call was turned away while all of the shared state was in use
C2_Witness ==
    \E p \in Procs :
        /\ pc[p] = "rejected"
        /\ check_lock \notin {"free", p}
        /\ is_checking
        /\ progress_queue # <<>>
        /\ jsonFile.kind = "snap"

\* C3: the client of /refresh gets 409, and not the redirect of a completed
\* run, when its call was turned away.
C3_RejectedRefreshIsConflict ==
    [][\A p \in Requests :
          (pc[p] = "rejected" /\ pc'[p] = "idle")
          => (http'[p] = HttpConflict /\ http'[p] # RefreshStatus(ResultsRet(<<>>)))]_vars

\* the results of a snapshot about one url that are not OK
Broken(snap, url) ==
    {i \in 1..Len(snap.results) :
        snap.results[i].url = url /\ snap.results[i].status # StatusOK}

\* first_broken of `new`, the snapshot written after `old`
Continuity(old, new) ==
    \A i \in 1..Len(new.results) :
        LET r == new.results[i] IN
        IF r.status = StatusOK THEN r.first_broken = None
        ELSE IF Broken(old, r.url) # {}
             THEN \A j \in Broken(old, r.url) : r.first_broken = old.results[j].first_broken
             ELSE r.first_broken = new.last_checked

\* C4: first_broken continuity.  When a run writes a snapshot after an earlier
\* run's snapshot (whatever failed runs lie between), each result that is not
\* OK keeps the first_broken its url had in the earlier snapshot if the url was
\* not OK there, and takes the run's timestamp if the url was OK or absent;
\* each OK result has first_broken null.
C4_FirstBrokenContinuity ==
    [][(lastSnap # None /\ lastSnap' # lastSnap) => Continuity(lastSnap[1], lastSnap'[1])]_vars

\* a link broken since time 1 is still recorded so by a run at time 2
C4_Witness ==
    /\ lastSnap # None
    /\ lastSnap[1].last_checked = Some(2)
    /\ \E i \in 1..Len(lastSnap[1].results) :
          /\ lastSnap[1].results[i].status # StatusOK
          /\ lastSnap[1].results[i].first_broken = Some(1)

\* C5: in every snapshot a run writes, an OK result has first_broken null and
\* any other result has a first_broken, whatever the file held before.
C5_SnapshotInvariant ==
    lastSnap # None =>
        \A i \in 1..Len(lastSnap[1].results) :
            LET r == lastSnap[1].results[i] IN
            (r.status = StatusOK) <=> (r.first_broken = None)

\* a run that read the broken entry without first_broken has written the url
\* as not OK
C5_Witness ==
    /\ history[R1] = LegacySnap
    /\ lastSnap # None
    /\ Broken(lastSnap[1], sU) # {}

\* C6: a run whose fetch yields no records ends having published the two
\* "fetching" events and the "No records found" completion and nothing else,
\* and returns the results history.json holds (none when there is no file).
C6_FailedFetchReturnsHistory ==
    \A p \in Procs :
        (pc[p] = "release" /\ records[p] = <<>>) =>
            /\ ret[p] = ResultsRet(jsonFile.results)
            /\ runEvents[p] = <<FetchingEvent("Getting forms data..."),
                                FetchingEvent("Fetching forms data..."),
                                CompleteEvent("No records found")>>

\* the "checking" events of a run over recs, from the one of index i on
RECURSIVE CheckingEvents(_, _)
CheckingEvents(recs, i) ==
    IF i > Len(recs) THEN <<>>
    ELSE <<CheckingEvent(recs[i], i, Len(recs))>> \o CheckingEvents(recs, i + 1)

\* C7: an accepted run over N >= 1 records has published, when it ends, the
\* "checking" events 1..N of total N in order, each once, and then one
\* "complete" event, which is its last event.
C7_ProgressSequence ==
    \A p \in Procs :
        (pc[p] = "release" /\ Len(records[p]) >= 1) =>
            runEvents[p] = <<FetchingEvent("Getting forms data..."),
                             FetchingEvent("Fetching forms data...")>>
                           \o CheckingEvents(records[p], 1)
                           \o <<CompleteEvent("Check completed")>>

\* the result belongs to the group that is listed first
ListedFirst(r) == Head(r.status) \in {"Error", "Broken"}

StrLeq(x, y) == x = y \/ StrLess(x, y)

\* the place in the catalog of the record a result is about
RecIdx(recs, r) ==
    CHOOSE k \in 1..Len(recs) :
        recs[k] = [department |-> r.department, title |-> r.title,
                   lang |-> r.lang, url |-> r.url]

\* C8: in the snapshot a run writes, the "Error"/"Broken" results come before
\* all others; within each group department, then title, do not decrease; and
\* results equal on both keep the order of the catalog.
C8_ResultOrdering ==
    \A p \in Procs :
        (pc[p] = "to_csv") =>
            LET rs == jsonFile.results IN
            /\ Len(rs) = Len(records[p])
            /\ \A i, j \in 1..Len(rs) :
                  i < j =>
                    /\ ListedFirst(rs[j]) => ListedFirst(rs[i])
                    /\ (ListedFirst(rs[i]) = ListedFirst(rs[j])) =>
                        /\ StrLeq(rs[i].department, rs[j].department)
                        /\ (rs[i].department = rs[j].department)
                              => StrLeq(rs[i].title, rs[j].title)
                        /\ (rs[i].department = rs[j].department /\ rs[i].title = rs[j].title)
                              => RecIdx(records[p], rs[i]) < RecIdx(records[p], rs[j])

\* a failing result was written in front of an OK one of a smaller department
C8_Witness ==
    \E p \in Procs :
        /\ pc[p] = "to_csv"
        /\ Len(jsonFile.results) = 2
        /\ ListedFirst(jsonFile.results[1])
        /\ ~ListedFirst(jsonFile.results[2])
        /\ StrLess(jsonFile.results[2].department, jsonFile.results[1].department)

\* the status the claim gives for an outcome of the lightweight probe
ClaimedStatus(r) ==
    IF r.kind = "response"
    THEN (IF r.code \in {401, 403} THEN <<"Restricted", r.code>>
          ELSE IF r.code >= 400 THEN <<"Error", r.code>>
          ELSE <<"OK">>)
    ELSE <<"Broken">>

\* C9: check_link returns "Restricted <code>" for 401 and 403, "Error <code>"
\* for any other code from 400 on, "OK" below 400, "Broken" without a response.
C9_StatusDerivation ==
    (pOut # None /\ ~(pIn.answer.kind = "exception" /\ pIn.answer.exc \in
                        {"SSLError:legacy_renegotiation", "SSLError:handshake_failure"}))
        => pOut[1] = ClaimedStatus(pIn.answer)

\* C10: check_link returns "TLS Legacy Renegotiation Unsupported" for a TLS
\* error with the legacy-renegotiation signature and "TLS Handshake Failure"
\* for one with the handshake-failure signature.
C10_TlsClassification ==
    (pOut # None /\ pIn.answer.kind = "exception") =>
        /\ pIn.answer.exc = "SSLError:legacy_renegotiation"
              => pOut[1] = <<"TLS", "Legacy", "Renegotiation", "Unsupported">>
        /\ pIn.answer.exc = "SSLError:handshake_failure"
              => pOut[1] = <<"TLS", "Handshake", "Failure">>

\* C11: a probe that fails (connection error, timeout, DNS failure) yields a
\* result and the loop goes on: every pass of the loop adds one result and
\* stays in the loop, and a run that has left the loop for the write holds as
\* many results as records.
C11_ProbeFailuresAbsorbed ==
    /\ [](\A p \in Procs :
            pc[p] \in {"dump", "to_csv", "complete"} => Len(results[p]) = Len(records[p]))
    /\ [][\A p \in Procs :
            (pc[p] = "loop" /\ runEvents'[p] # runEvents[p]) =>
                /\ pc'[p] = "loop"
                /\ Len(results'[p]) = Len(results[p]) + 1
                /\ results'[p][Len(results'[p])].url = records[p][Len(results'[p])].url]_vars

\* the first link failed without a response and the second one was probed OK
C11_Witness ==
    \E p \in Procs :
        /\ pc[p] = "loop"
        /\ Len(results[p]) = 2
        /\ results[p][1].status = StatusBroken
        /\ results[p][2].status = StatusOK

\* C12: what index() reads from history.json and what download_csv sends is
\* never a file that is cut short: it is a whole snapshot (or no file).
C12_NoPartialRead ==
    /\ pageView # None => pageView[1].kind # "partial"
    /\ download # None => download[1].kind # "partial"

\* C13: a run that ends has published a "complete" event; and a run that has
\* probed all of its records has returned its results to the caller, whether
\* or not the writes of history.json and of the CSV export succeeded.
C13_PersistFailureAbsorbed ==
    \A p \in Procs :
        pc[p] = "release" =>
            /\ \E i \in 1..Len(runEvents[p]) : runEvents[p][i].state = "complete"
            /\ (Len(records[p]) >= 1 /\ Len(results[p]) = Len(records[p]))
                    => ret[p] = ResultsRet(results[p])

\* t is the end of q
IsSuffix(t, q) == Len(t) <= Len(q) /\ t = SubSeq(q, Len(q) - Len(t) + 1, Len(q))

\* the events published since s connected that have left the queue
Taken(s) ==
    SubSeq(due[s], 1, Len(due[s]) - Min({Len(due[s]), Len(progress_queue)}))

\* C14: a connected subscriber has been sent, once each and in publish order,
\* all the events published since it connected that have left the queue;
\* whatever other subscribers are connected.
C14_SubscriberDelivery ==
    \A s \in DOMAIN got : subOn[s] => IsSuffix(Taken(s), got[s])

\* C20: a subscriber is sent no event of a run that had ended when it
\* connected.
C20_NoStaleEvents ==
    [][\A s \in DOMAIN got :
          (subOn[s] /\ Len(progress_queue') < Len(progress_queue)
                    /\ (got'[s] # got[s] \/ ~subOn'[s]))
          => stale[s] = 0]_vars

\* last_auto_refresh of the snapshot written before (none before any)
PrevAutoRefresh == IF lastSnap = None THEN None ELSE lastSnap[1].last_auto_refresh

\* C15: a run that writes a snapshot writes last_auto_refresh equal to its own
\* timestamp, which is its last_checked, when it is the scheduler's run, and
\* equal to the previous snapshot's last_auto_refresh (absent when that had
\* none) when it is a manual run.
C15_LastAutoRefreshFrame ==
    [][(lastSnap' # lastSnap) =>
          /\ check_lock \in Procs
          /\ lastSnap'[1].last_checked = Some(nowv[check_lock])
          /\ lastSnap'[1].last_auto_refresh =
                IF auto[check_lock] THEN lastSnap'[1].last_checked ELSE PrevAutoRefresh]_vars

\* a manual run at time 2 has carried over the scheduler's refresh of time 1
C15_Witness ==
    /\ lastSnap # None
    /\ lastSnap[1].last_checked = Some(2)
    /\ lastSnap[1].last_auto_refresh = Some(1)

\* a failed attempt: a timeout, a request error, invalid JSON, a payload that
\* is not a list or is empty
FailedAttempt(a) == a.kind = "error" \/ a.forms = <<>>

\* no item of the payload has a populated URL field
NoPopulatedUrl(forms) ==
    \A i \in 1..Len(forms) : \A k \in 1..Len(Langs) : FormUrl(forms[i], Langs[k]) = sEmpty

\* C16: get_links_with_meta is at its k-th attempt only after k-1 failed ones
\* and k is at most 3; after an attempt it makes another one exactly when the
\* attempt failed and was not the third; and when it returns, the record list
\* is empty exactly when the last attempt failed (all three did) or the
\* payload has no populated URL field.
C16_FetchRetryBound ==
    /\ [](\A p \in Procs :
            pc[p] = "fetch" =>
                /\ attempt[p] < FetchAttempts
                /\ \A j \in 1..attempt[p] : FailedAttempt(pIn[j]))
    /\ [][\A p \in Procs :
            (pc[p] = "fetch" /\ <<pc'[p], attempt'[p]>> # <<pc[p], attempt[p]>>) =>
                LET k == attempt[p] + 1
                    a == pIn[k]
                IN /\ (pc'[p] = "fetch") <=> (FailedAttempt(a) /\ k < FetchAttempts)
                   /\ (pc'[p] = "fetch") => attempt'[p] = k
                   /\ (pc'[p] # "fetch") =>
                        /\ (records'[p] = <<>>) <=>
                                (FailedAttempt(a) \/ NoPopulatedUrl(a.forms))
                        /\ FailedAttempt(a) => k = FetchAttempts]_vars

\* the third attempt succeeded after two failed ones
C16_Witness ==
    /\ pc[R1] = "now"
    /\ records[R1] # <<>>
    /\ FailedAttempt(pIn[1]) /\ FailedAttempt(pIn[2]) /\ ~FailedAttempt(pIn[3])

\* the records of a payload, in the order of its items and, within an item,
\* of en, tc, sc
InCatalogOrder(recs) ==
    \A i, j \in 1..Len(recs) :
        (i < j /\ recs[i].department = recs[j].department /\ recs[i].title = recs[j].title)
            => \E a, b \in 1..Len(Langs) : a < b /\ recs[i].lang = Langs[a] /\ recs[j].lang = Langs[b]

\* C17: every record get_links_with_meta returns has a url that is not empty
\* and has no whitespace at either end, and the records of one item follow
\* the order en, tc, sc.
C17_RecordUrlInvariant ==
    \A p \in Procs :
        pc[p] = "now" =>
            /\ \A i \in 1..Len(records[p]) :
                  /\ records[p][i].url # sEmpty
                  /\ Strip(records[p][i].url) = records[p][i].url
            /\ InCatalogOrder(records[p])

\* C18: the guard is held only by an invocation that is between its acquire
\* and its release: when no invocation is, check_lock is free and is_checking
\* is False; and the step that ends an accepted invocation, however its body
\* ended, leaves the lock free and the flag False.
C18_GuardReleased ==
    /\ [](/\ check_lock # "free" => Holding(check_lock)
          /\ check_lock = "free" => ~is_checking)
    /\ [][\A p \in Procs :
            (Holding(p) /\ ~Holding(p)') => (check_lock' = "free" /\ ~is_checking')]_vars

\* a run that ended by an exception has left the guard free
C18_Witness ==
    /\ http[R1] = 500
    /\ pc[R1] = "idle"
    /\ check_lock = "free"
    /\ ~is_checking

\* the place of an event's state in idle -> fetching -> checking -> complete
StateRank(ev) ==
    IF ev.state = "fetching" THEN 1 ELSE IF ev.state = "checking" THEN 2 ELSE 3

\* one or more "fetching", then "checking" events, then at most one "complete"
RunShape(evs) ==
    /\ evs # <<>> => evs[1].state = "fetching"
    /\ \A i, j \in 1..Len(evs) :
          i < j => /\ StateRank(evs[i]) <= StateRank(evs[j])
                   /\ evs[i].state # "complete"

\* C19: only the invocation that holds the guard has published events, its
\* events have the form fetching+, checking*, complete?, and every event put
\* on progress_queue is put at its end by the holder, as the next event of
\* the holder's sequence: the events of two runs never interleave.
C19_RunSequencesWhole ==
    /\ [](\A p \in Procs :
            /\ runEvents[p] # <<>> => check_lock = p
            /\ RunShape(runEvents[p]))
    /\ [][Len(progress_queue') > Len(progress_queue) =>
            /\ check_lock \in Procs
            /\ check_lock' = check_lock
            /\ Len(runEvents'[check_lock]) = Len(runEvents[check_lock]) + 1
            /\ progress_queue' =
                  Append(progress_queue, runEvents'[check_lock][Len(runEvents'[check_lock])])
            /\ \A q \in Procs \ {check_lock} : runEvents'[q] = <<>>]_vars

\* a run has published its whole sequence while another caller was turned away
C19_Witness ==
    \E p, q \in Procs :
        /\ p # q /\ pc[q] = "rejected"
        /\ Len(runEvents[p]) >= 4
        /\ runEvents[p][Len(runEvents[p])].state = "complete"
        /\ \E i \in 1..Len(runEvents[p]) : runEvents[p][i].state = "checking"
====
